---------------------------- MODULE Spec2Model ----------------------------
(***************************************************************************)
(* SiS:TER Corpus Explorer (src/app.py): a Streamlit script that is re-run *)
(* from top to bottom on every user interaction.  One run loads the        *)
(* annotation corpus through a memoised fetch, filters it by the sidebar   *)
(* widgets, caps the result, pages through it with two buttons, exports it *)
(* on request and builds the word-cloud input of the selected category.    *)
(*                                                                         *)
(* JSON values are tagged records: None, int, float (in tenths) and str (a *)
(* sequence of one-character strings, so that int() can be modelled on the *)
(* characters).  A JSON object (a Python dict) is a function from key      *)
(* strings to values, a JSON array (a Python list) is a sequence.          *)
(***************************************************************************)
EXTENDS Integers, Sequences, FiniteSets, TLC

(* ------------------------------ bounds -------------------------------- *)

\* longest corpus drawn from the record pool (filter specification)
MaxShort == 2

\* generated corpora come in the lengths 2, N_DISPLAY and N_DISPLAY + ExtraRecords
ExtraRecords == 1

\* longest frequency table (word-cloud specification)
MaxRows == 3

\* failed get_object requests a behaviour may contain (cache specification)
MaxFailures == 2

(* --------------------------- JSON values ------------------------------ *)

None == [t |-> "none"]

JInt(n) == [t |-> "int", i |-> n]

JFloat(x) == [t |-> "float", tenths |-> x]

JStr(s) == [t |-> "str", s |-> s]

\* the dict literal {}
EmptyDict == [k \in {} |-> None]

\* dict.get(key, default)
Get(d, key, default) == IF key \in DOMAIN d THEN d[key] ELSE default

\* value in list_of_str  (Python compares with ==; None equals no string)
InStrList(value, strs) == value.t = "str" /\ value.s \in strs

(* ------------------------------ int() --------------------------------- *)

Digits == {"0", "1", "2", "3", "4", "5", "6", "7", "8", "9"}

DigitValue(c) ==
    CASE c = "0" -> 0 [] c = "1" -> 1 [] c = "2" -> 2 [] c = "3" -> 3
      [] c = "4" -> 4 [] c = "5" -> 5 [] c = "6" -> 6 [] c = "7" -> 7
      [] c = "8" -> 8 [] c = "9" -> 9

RECURSIVE Strip(_)
Strip(s) ==
    IF s = <<>> THEN s
    ELSE IF Head(s) = " " THEN Strip(Tail(s))
    ELSE IF s[Len(s)] = " " THEN Strip(SubSeq(s, 1, Len(s) - 1))
    ELSE s

RECURSIVE DecimalValue(_, _)
DecimalValue(s, acc) ==
    IF s = <<>> THEN acc
    ELSE DecimalValue(Tail(s), 10 * acc + DigitValue(Head(s)))

\* int(str): surrounding blanks stripped, an optional sign, then one or more
\* decimal digits; anything else raises ValueError (the strings of the model
\* are made of letters, ASCII digits, signs and blanks)
IntOfStr(s) ==
    LET body   == Strip(s)
        signed == body # <<>> /\ Head(body) \in {"+", "-"}
        digs   == IF signed THEN Tail(body) ELSE body
    IN  IF digs # <<>> /\ \A k \in 1..Len(digs) : digs[k] \in Digits
        THEN [ok |-> TRUE,
              v  |-> IF signed /\ Head(body) = "-"
                     THEN 0 - DecimalValue(digs, 0)
                     ELSE DecimalValue(digs, 0)]
        ELSE [ok |-> FALSE, v |-> 0]

\* int(float) truncates toward zero
IntOfFloat(x) == IF x >= 0 THEN x \div 10 ELSE 0 - ((0 - x) \div 10)

\* int(value): ok = FALSE stands for the ValueError / TypeError it raises
PyInt(value) ==
    CASE value.t = "int"   -> [ok |-> TRUE, v |-> value.i]
      [] value.t = "float" -> [ok |-> TRUE, v |-> IntOfFloat(value.tenths)]
      [] value.t = "str"   -> IntOfStr(value.s)
      [] OTHER             -> [ok |-> FALSE, v |-> 0]

safe_int(value) == IF PyInt(value).ok THEN PyInt(value).v ELSE 0


(* ------------------------- program constants -------------------------- *)

N_DISPLAY == 20

PAGE_SIZE == 1

\* the options of the sound-type multiselect
sound_types == {<<"d">>, <<"n", "d">>, <<"d", "n", "d">>}

\* the bounds of the three volume sliders
VolumeMin == 0

VolumeMax == 4

\* the export data frame's columns, in order
CsvColumns ==
    <<"Story ID", "Part", "Author", "Title", "Year", "Text", "Sound Type",
      "Volume Human", "Volume Nature", "Volume Artificial">>

(* --------------------------- sidebar (tab 2) -------------------------- *)

\* entry.get("annotations", {}).get("paragraph_level", {})
ParagraphLevel(entry) ==
    Get(Get(entry, "annotations", EmptyDict), "paragraph_level", EmptyDict)

\* entry.get("annotations", {}).get("token_level", {}).get("labels", [])
TokenLabels(entry) ==
    Get(Get(Get(entry, "annotations", EmptyDict), "token_level", EmptyDict),
        "labels", <<>>)

\* {label for t in token_labels for label in t.get("labels", [])}
ParagraphLabels(entry) ==
    LET toks == TokenLabels(entry)
    IN  UNION {{Get(toks[k], "labels", <<>>)[j] :
                    j \in 1..Len(Get(toks[k], "labels", <<>>))} :
               k \in 1..Len(toks)}

\* the label vocabulary offered by the label multiselect
all_labels(annotations) ==
    UNION {ParagraphLabels(annotations[k]) : k \in 1..Len(annotations)}

\* the int years of the corpus; min() and max() of it bound the year inputs
years(annotations) ==
    {annotations[k]["metadata"]["year"].i :
        k \in {j \in 1..Len(annotations) :
                 /\ "metadata" \in DOMAIN annotations[j]
                 /\ Get(annotations[j]["metadata"], "year", None).t = "int"}}

min_year(annotations) ==
    CHOOSE y \in years(annotations) : \A z \in years(annotations) : y <= z

max_year(annotations) ==
    CHOOSE y \in years(annotations) : \A z \in years(annotations) : y >= z

\* every widget at the value it is created with; on a corpus without an int
\* year line 78 raises before the two year inputs exist, and 0 stands for
\* their absent values
DefaultWidgets(annotations, categories) ==
    [selected_sound_types |-> sound_types,
     selected_labels      |-> {},
     year_start           |-> IF years(annotations) = {} THEN 0
                              ELSE min_year(annotations),
     year_end             |-> IF years(annotations) = {} THEN 0
                              ELSE max_year(annotations),
     volume_human         |-> <<VolumeMin, VolumeMax>>,
     volume_nature        |-> <<VolumeMin, VolumeMax>>,
     volume_artificial    |-> <<VolumeMin, VolumeMax>>,
     export_format        |-> "CSV",
     selected_category    |-> IF categories = <<>> THEN "" ELSE categories[1]]

(* ---------------------------- filter logic ---------------------------- *)

\* mutant: the lower bound of a range is excluded
InRange_exclusive(range, vol) == range[1] < vol /\ vol <= range[2]

\* the volume-range test of one dimension
InRange(range, vol) == range[1] <= vol /\ vol <= range[2]

\* mutant: every selected label must be among the paragraph's labels
LabelsMatch_all(selected, paragraph_labels) ==
    \A lab \in selected : lab \in paragraph_labels

\* any(label in paragraph_labels for label in selected_labels)
LabelsMatch(selected, paragraph_labels) ==
    \E lab \in selected : lab \in paragraph_labels

paragraph_matches_filters(entry, w) ==
    LET meta == Get(entry, "metadata", EmptyDict)
        year == Get(meta, "year", None)
        para_sound_type == Get(ParagraphLevel(entry), "sound_type", None)
        volume == Get(ParagraphLevel(entry), "volume", EmptyDict)
        vol_human == safe_int(Get(volume, "human", JInt(0)))
        vol_nature == safe_int(Get(volume, "nature", JInt(0)))
        vol_artificial == safe_int(Get(volume, "artificial", JInt(0)))
    IN  IF year.t = "none" \/ ~(w.year_start <= year.i /\ year.i <= w.year_end)
        THEN FALSE
        ELSE IF /\ w.selected_sound_types # {}
                /\ ~InStrList(para_sound_type, w.selected_sound_types)
        THEN FALSE
        ELSE IF ~InRange(w.volume_human, vol_human) THEN FALSE
        ELSE IF ~InRange(w.volume_nature, vol_nature) THEN FALSE
        ELSE IF ~InRange(w.volume_artificial, vol_artificial) THEN FALSE
        ELSE IF /\ w.selected_labels # {}
                /\ ~LabelsMatch(w.selected_labels, ParagraphLabels(entry))
        THEN FALSE
        ELSE TRUE

\* [a for a in annotations if paragraph_matches_filters(a)]
Matching(annotations, w) ==
    SelectSeq(annotations, LAMBDA a : paragraph_matches_filters(a, w))

\* filtered_annotations[:N_DISPLAY]
FirstN(seq) == SubSeq(seq, 1, IF Len(seq) < N_DISPLAY THEN Len(seq) ELSE N_DISPLAY)

(* ----------------------------- pagination ----------------------------- *)

\* mutant: the page count is rounded up by always adding a page
TotalPages_extra_page(filtered) == (Len(filtered) \div PAGE_SIZE) + 1

\* len // PAGE_SIZE + (len % PAGE_SIZE > 0)
TotalPages(filtered) ==
    (Len(filtered) \div PAGE_SIZE)
        + (IF Len(filtered) % PAGE_SIZE > 0 THEN 1 ELSE 0)

\* if 'page_number' not in st.session_state: st.session_state.page_number = 1
EnsurePage(ss) == IF "page_number" \in DOMAIN ss THEN ss ELSE [page_number |-> 1]

\* the Previous button's handler
Previous(ss, clicked_now) ==
    IF clicked_now = "previous" /\ ss.page_number > 1
    THEN [ss EXCEPT !.page_number = @ - 1]
    ELSE ss

\* mutant: Next also advances from the last page
NextPage_past_last(ss, clicked_now, pages) ==
    IF clicked_now = "next" /\ ss.page_number <= pages
    THEN [ss EXCEPT !.page_number = @ + 1]
    ELSE ss

\* the Next button's handler
NextPage(ss, clicked_now, pages) ==
    IF clicked_now = "next" /\ ss.page_number < pages
    THEN [ss EXCEPT !.page_number = @ + 1]
    ELSE ss

\* filtered_annotations[start_idx:end_idx]; a Python slice is cut to the list
PageSlice(filtered, page) ==
    LET start_idx == (page - 1) * PAGE_SIZE
        end_idx   == start_idx + PAGE_SIZE
        last      == IF end_idx < Len(filtered) THEN end_idx ELSE Len(filtered)
    IN  SubSeq(filtered, start_idx + 1, last)

(* ------------------------------ display ------------------------------- *)

\* the subscripts entry[...] of the page body; a missing key raises KeyError
DisplayRaises(entry, w) ==
    LET toks == TokenLabels(entry)
    IN  \/ "text" \notin DOMAIN entry
        \/ /\ w.selected_labels # {}
           /\ \E k \in 1..Len(toks) :
                \/ "labels" \notin DOMAIN toks[k]
                \/ /\ \E j \in 1..Len(toks[k]["labels"]) :
                          toks[k]["labels"][j] \in w.selected_labels
                   /\ "text" \notin DOMAIN toks[k]
        \/ "annotations" \notin DOMAIN entry
        \/ "paragraph_level" \notin DOMAIN entry["annotations"]
        \/ "volume" \notin DOMAIN entry["annotations"]["paragraph_level"]
        \/ "sound_type" \notin DOMAIN entry["annotations"]["paragraph_level"]
        \/ \E key \in {"human", "nature", "artificial"} :
              key \notin DOMAIN entry["annotations"]["paragraph_level"]["volume"]
        \/ \E k \in 1..Len(toks) :
              \E key \in {"text", "lemma", "labels", "start", "end"} :
                  key \notin DOMAIN toks[k]

(* ------------------------------- export ------------------------------- *)

\* the subscripts of one CSV row; a missing key raises KeyError
CsvRowRaises(e) ==
    \/ \E key \in {"story_id", "part", "text", "annotations"} : key \notin DOMAIN e
    \/ "paragraph_level" \notin DOMAIN e["annotations"]
    \/ "sound_type" \notin DOMAIN e["annotations"]["paragraph_level"]
    \/ "volume" \notin DOMAIN e["annotations"]["paragraph_level"]
    \/ \E key \in {"human", "nature", "artificial"} :
          key \notin DOMAIN e["annotations"]["paragraph_level"]["volume"]

\* one row of the export data frame, in the order of CsvColumns
CsvRow(e) ==
    LET meta == Get(e, "metadata", EmptyDict)
        para == e["annotations"]["paragraph_level"]
    IN  <<e["story_id"], e["part"], Get(meta, "author", None),
          Get(meta, "title", None), Get(meta, "year", None), e["text"],
          para["sound_type"], para["volume"]["human"],
          para["volume"]["nature"], para["volume"]["artificial"]>>

\* pd.DataFrame(rows).to_csv(index=False): a header line, then one record per
\* row; a frame built from no rows has no columns, its header line is blank
ToCsv(rows) ==
    [kind   |-> "csv",
     header |-> IF rows = <<>> THEN <<>> ELSE CsvColumns,
     rows   |-> rows]

\* "\n".join(json.dumps(item) for item in export_data): one line per item,
\* and no line at all for no item
ToJsonl(export_data) == [kind |-> "jsonl", lines |-> export_data]

NoDownload == [kind |-> "none"]

\* the body of `if st.button("Download First 20 Results")`
Export(filtered, format) ==
    LET export_data == FirstN(filtered)
    IN  IF format = "CSV"
        THEN IF \E k \in 1..Len(export_data) : CsvRowRaises(export_data[k])
             THEN [fault |-> "KeyError", download |-> NoDownload]
             ELSE [fault    |-> "none",
                   download |-> ToCsv([k \in 1..Len(export_data) |->
                                          CsvRow(export_data[k])])]
        ELSE [fault |-> "none", download |-> ToJsonl(export_data)]

(* ------------------------- word clouds (tab 3) ------------------------ *)

\* df['category'].unique(): the distinct categories, in order of appearance
RECURSIVE Unique(_, _)
Unique(df, seen) ==
    IF df = <<>> THEN seen
    ELSE Unique(Tail(df),
                IF \E k \in 1..Len(seen) : seen[k] = Head(df).category
                THEN seen
                ELSE Append(seen, Head(df).category))

categories(df) == Unique(df, <<>>)

\* df[df['category'] == selected_category]
filtered_df(df, selected) == SelectSeq(df, LAMBDA row : row.category = selected)

\* dict(zip(lemmas, freqs)): a later pair overwrites an earlier one
RECURSIVE DictZip(_, _)
DictZip(rows, acc) ==
    IF rows = <<>> THEN acc
    ELSE DictZip(Tail(rows), (Head(rows).lemma :> Head(rows).freq) @@ acc)

\* mutant: the first pair of a lemma is kept
RECURSIVE DictZipFirst(_, _)
DictZipFirst(rows, acc) ==
    IF rows = <<>> THEN acc
    ELSE DictZipFirst(Tail(rows), acc @@ (Head(rows).lemma :> Head(rows).freq))

word_freq_of_first_wins(rows) == DictZipFirst(rows, EmptyDict)

word_freq_of(rows) == DictZip(rows, EmptyDict)

\* the if / else of the tab: a rendered cloud, or the warning
WordCloudView(df, selected) ==
    IF filtered_df(df, selected) # <<>>
    THEN [notice |-> "wordcloud", word_freq |-> word_freq_of(filtered_df(df, selected))]
    ELSE [notice |-> "No words yet :(", word_freq |-> EmptyDict]

(* --------------------------- memoised fetches ------------------------- *)

\* A function under @st.cache_data, called without arguments: the stored value
\* is returned when there is one; otherwise get_object is requested and its
\* result, if the request succeeds, is stored.  cache is <<>> or <<value>>.
\* mutant: the stored value is not looked up, every call requests the object
CachedFetch_no_lookup(cache, count, object, ok) ==
    IF ok
    THEN [cache |-> <<object>>, count |-> count + 1, ok |-> TRUE, value |-> object]
    ELSE [cache |-> cache, count |-> count + 1, ok |-> FALSE, value |-> <<>>]

CachedFetch(cache, count, object, ok) ==
    IF cache # <<>>
    THEN [cache |-> cache, count |-> count, ok |-> TRUE, value |-> cache[1]]
    ELSE IF ok
    THEN [cache |-> <<object>>, count |-> count + 1, ok |-> TRUE, value |-> object]
    ELSE [cache |-> <<>>, count |-> count + 1, ok |-> FALSE, value |-> <<>>]

\* the count of failed requests after a fetch with result f
FailedAfter(failed, f) == IF f.ok THEN failed ELSE failed + 1

(* ------------------------------- a run -------------------------------- *)

(* One run of the script from top to bottom, as a chain of stages over a   *)
(* record that holds what outlives a run (the two caches, the request      *)
(* counts, session_state) and what the run computes.  An exception ends    *)
(* the run where it is raised: fault names the place, and every later      *)
(* stage leaves the record alone.                                          *)

\* before line 1: nothing computed yet
Begin(pre) ==
    [cache_annotations    |-> pre.cache_annotations,
     cache_df             |-> pre.cache_df,
     requests             |-> pre.requests,
     failed               |-> pre.failed,
     session_state        |-> pre.session_state,
     annotations          |-> <<>>,
     matched              |-> <<>>,
     filtered_annotations |-> <<>>,
     total_pages          |-> 0,
     shown                |-> <<>>,
     download             |-> NoDownload,
     notice               |-> "",
     word_freq            |-> EmptyDict,
     fault                |-> "none"]

\* annotations = load_annotations()
LoadAnnotations(r, object, ok) ==
    LET f == CachedFetch(r.cache_annotations, r.requests.annotations, object, ok)
    IN  [r EXCEPT !.cache_annotations = f.cache,
                  !.requests.annotations = f.count,
                  !.failed.annotations = FailedAfter(@, f),
                  !.annotations = f.value,
                  !.fault = IF f.ok THEN "none" ELSE "load_annotations"]

\* the sidebar: min(years) raises ValueError on an empty list
Sidebar(r) ==
    IF r.fault # "none" THEN r
    ELSE IF years(r.annotations) = {} THEN [r EXCEPT !.fault = "min"]
    ELSE r

\* the filtered list, its cap and the page count
FilterStage(r, w) ==
    IF r.fault # "none" THEN r
    ELSE [r EXCEPT !.matched = Matching(r.annotations, w),
                   !.filtered_annotations = FirstN(Matching(r.annotations, w)),
                   !.total_pages = TotalPages(FirstN(Matching(r.annotations, w)))]

\* session_state.page_number and the two buttons
Paginate(r, clicked_now) ==
    IF r.fault # "none" THEN r
    ELSE [r EXCEPT !.session_state =
                      NextPage(Previous(EnsurePage(r.session_state), clicked_now),
                               clicked_now, r.total_pages)]

\* the loop over the page's slice
Display(r, w) ==
    IF r.fault # "none" THEN r
    ELSE LET slice == PageSlice(r.filtered_annotations, r.session_state.page_number)
         IN  [r EXCEPT !.shown = slice,
                       !.fault = IF \E k \in 1..Len(slice) : DisplayRaises(slice[k], w)
                                 THEN "display" ELSE "none"]

\* the export section
ExportStage(r, w, clicked_now) ==
    IF r.fault # "none" \/ clicked_now # "download" THEN r
    ELSE LET e == Export(r.filtered_annotations, w.export_format)
         IN  [r EXCEPT !.download = e.download,
                       !.fault = IF e.fault = "none" THEN "none" ELSE "export"]

\* tab 3: df = load_data(), then the category's cloud
WordClouds(r, w, object, ok) ==
    IF r.fault # "none" THEN r
    ELSE LET f == CachedFetch(r.cache_df, r.requests.df, object, ok)
         IN  IF ~f.ok
             THEN [r EXCEPT !.requests.df = f.count,
                            !.failed.df = FailedAfter(@, f),
                            !.fault = "load_data"]
             ELSE LET view == WordCloudView(f.value, w.selected_category)
                  IN  [r EXCEPT !.cache_df = f.cache,
                                !.requests.df = f.count,
                                !.notice = view.notice,
                                !.word_freq = view.word_freq]

\* pre: what outlives a run; store: the two objects of the bucket; w: the
\* widget values; clicked_now: the button that returns True in this run;
\* ok_annotations / ok_df: whether a get_object request made in this run succeeds
Script(pre, store, w, clicked_now, ok_annotations, ok_df) ==
    [clicked |-> clicked_now] @@
    WordClouds(
        ExportStage(
            Display(
                Paginate(
                    FilterStage(
                        Sidebar(LoadAnnotations(Begin(pre), store.annotations,
                                                ok_annotations)),
                        w),
                    clicked_now),
                w),
            w, clicked_now),
        w, store.df, ok_df)

(* ------------------------------- state -------------------------------- *)

VARIABLES
    store_annotations,    \* the JSON-lines object of the bucket, parsed
    store_df,             \* the frequency table of the bucket, parsed
    cache_annotations,    \* st.cache_data entry of load_annotations
    cache_df,             \* st.cache_data entry of load_data
    requests,             \* get_object requests made so far, per object
    failed,               \* those of them that raised, per object
    session_state,        \* st.session_state
    selected_sound_types, selected_labels, year_start, year_end,
    volume_human, volume_nature, volume_artificial,
    export_format, selected_category,              \* the widgets' values
    matched,              \* filtered_annotations as line 130 leaves it
    filtered_annotations, \* filtered_annotations as line 132 leaves it
    total_pages,
    shown,                \* the slice the page loop iterates over
    download,             \* what the download button of this run offers
    notice, word_freq,    \* tab 3: what is rendered, and the cloud's input
    clicked,              \* the button that returned True in the last run
    fault                 \* where the last run raised, or "none"

widget_vars ==
    <<selected_sound_types, selected_labels, year_start, year_end, volume_human,
      volume_nature, volume_artificial, export_format, selected_category>>

run_vars ==
    <<cache_annotations, cache_df, requests, failed, session_state, matched,
      filtered_annotations, total_pages, shown, download, notice, word_freq,
      clicked, fault>>

vars == <<store_annotations, store_df, widget_vars, run_vars>>

Widgets ==
    [selected_sound_types |-> selected_sound_types,
     selected_labels      |-> selected_labels,
     year_start           |-> year_start,
     year_end             |-> year_end,
     volume_human         |-> volume_human,
     volume_nature        |-> volume_nature,
     volume_artificial    |-> volume_artificial,
     export_format        |-> export_format,
     selected_category    |-> selected_category]

Pre ==
    [cache_annotations |-> cache_annotations, cache_df |-> cache_df,
     requests |-> requests, failed |-> failed, session_state |-> session_state]

Store == [annotations |-> store_annotations, df |-> store_df]

\* the process has started and no session has run the script yet
Fresh ==
    [cache_annotations |-> <<>>, cache_df |-> <<>>,
     requests |-> [annotations |-> 0, df |-> 0],
     failed |-> [annotations |-> 0, df |-> 0], session_state |-> EmptyDict]

(* ------------------------------ the data ------------------------------ *)

human == <<"h", "u", "m", "a", "n">>

nature == <<"n", "a", "t", "u", "r", "e">>

Token(text, labels) ==
    [text |-> JStr(text), lemma |-> JStr(text), labels |-> labels,
     start |-> JInt(0), end |-> JInt(Len(text))]

Volume(h, n, a) == [human |-> h, nature |-> n, artificial |-> a]

Annotations(sound_type, volume, tokens) ==
    [token_level     |-> [labels |-> tokens],
     paragraph_level |-> [sound_type |-> JStr(sound_type), volume |-> volume]]

Metadata(year) ==
    [author |-> JStr(<<"A">>), title |-> JStr(<<"T">>), year |-> JInt(year)]

Paragraph(id, metadata, annotations) ==
    [story_id |-> JInt(id), part |-> JInt(1), text |-> JStr(<<"w", " ", "v">>),
     metadata |-> metadata, annotations |-> annotations]

\* the record pool of the filter specification: complete records, volumes
\* that are strings, a float and null, and records with absent fields
RecordPool ==
    { Paragraph(1, Metadata(1920),
                Annotations(<<"d">>, Volume(JInt(1), None, JInt(0)),
                            <<Token(<<"w">>, <<human>>)>>)),
      Paragraph(2, Metadata(1950),
                Annotations(<<"n", "d">>,
                            Volume(JStr(<<" ", "3">>), JInt(2), JStr(<<"l", "o">>)),
                            <<Token(<<"w">>, <<nature>>), Token(<<"v">>, <<human, nature>>)>>)),
      Paragraph(3, Metadata(1999),
                Annotations(<<"d", "n", "d">>, Volume(JFloat(27), JInt(4), JInt(3)), <<>>)),
      Paragraph(4, [author |-> JStr(<<"A">>), title |-> JStr(<<"T">>)],
                Annotations(<<"d">>, Volume(JInt(1), JInt(0), JInt(0)),
                            <<Token(<<"w">>, <<human>>)>>)),
      [story_id |-> JInt(5), part |-> JInt(1), text |-> JStr(<<"w">>),
       metadata |-> Metadata(1950)],
      Paragraph(6, [year |-> JInt(1999)],
                [token_level     |-> [labels |-> <<[text |-> JStr(<<"w">>)]>>],
                 paragraph_level |-> [sound_type |-> JStr(<<"d">>),
                                      volume |-> [nature |-> JInt(1)]]]) }

RECURSIVE SeqsUpTo(_, _)
SeqsUpTo(S, n) ==
    IF n = 0 THEN {<<>>}
    ELSE LET shorter == SeqsUpTo(S, n - 1)
         IN  shorter \cup {Append(q, x) : q \in shorter, x \in S}

\* every corpus of at most MaxShort records of the pool, the empty one and
\* those without an int year (min(years) raises at line 78) included
ShortCorpora == SeqsUpTo(RecordPool, MaxShort)

\* the i-th record of a generated corpus; with gaps, every fourth record
\* lacks its human volume and every fourth has no annotations at all
Generated(i, gaps) ==
    LET year  == IF i % 3 = 0 THEN 1920 ELSE IF i % 3 = 1 THEN 1950 ELSE 1999
        sound == IF (i \div 3) % 3 = 0 THEN <<"d">>
                 ELSE IF (i \div 3) % 3 = 1 THEN <<"n", "d">> ELSE <<"d", "n", "d">>
        toks  == IF i % 2 = 0 THEN <<Token(<<"w">>, <<human>>)>> ELSE <<>>
        full  == Paragraph(i, Metadata(year),
                           Annotations(sound, Volume(JInt(i % 5), JInt(0), JInt(0)), toks))
    IN  IF gaps /\ i % 4 = 2
        THEN [full EXCEPT !.annotations.paragraph_level.volume =
                              [nature |-> JInt(0), artificial |-> JInt(0)]]
        ELSE IF gaps /\ i % 4 = 3
        THEN [story_id |-> JInt(i), part |-> JInt(1), text |-> JStr(<<"w">>),
              metadata |-> Metadata(year)]
        ELSE full

GeneratedLengths == {2, N_DISPLAY, N_DISPLAY + ExtraRecords}

LongCorpora ==
    {[i \in 1..n |-> Generated(i, gaps)] : n \in GeneratedLengths, gaps \in BOOLEAN}

Row(category, lemma, freq) == [category |-> category, lemma |-> lemma, freq |-> freq]

RowPool ==
    {Row(c, l, f) : c \in {"nature", "human"}, l \in {"veter", "dozhd"}, f \in {7, 12}}

Tables == SeqsUpTo(RowPool, MaxRows)

SmallTable ==
    <<Row("nature", "veter", 12), Row("nature", "dozhd", 7), Row("human", "krik", 3)>>

(* ------------------------------ actions ------------------------------- *)

\* the widgets hold w and the run left r
StateIs(w, r) ==
    /\ selected_sound_types = w.selected_sound_types
    /\ selected_labels = w.selected_labels
    /\ year_start = w.year_start
    /\ year_end = w.year_end
    /\ volume_human = w.volume_human
    /\ volume_nature = w.volume_nature
    /\ volume_artificial = w.volume_artificial
    /\ export_format = w.export_format
    /\ selected_category = w.selected_category
    /\ cache_annotations = r.cache_annotations
    /\ cache_df = r.cache_df
    /\ requests = r.requests
    /\ failed = r.failed
    /\ session_state = r.session_state
    /\ matched = r.matched
    /\ filtered_annotations = r.filtered_annotations
    /\ total_pages = r.total_pages
    /\ shown = r.shown
    /\ download = r.download
    /\ notice = r.notice
    /\ word_freq = r.word_freq
    /\ clicked = r.clicked
    /\ fault = r.fault

StateBecomes(w, r) ==
    /\ selected_sound_types' = w.selected_sound_types
    /\ selected_labels' = w.selected_labels
    /\ year_start' = w.year_start
    /\ year_end' = w.year_end
    /\ volume_human' = w.volume_human
    /\ volume_nature' = w.volume_nature
    /\ volume_artificial' = w.volume_artificial
    /\ export_format' = w.export_format
    /\ selected_category' = w.selected_category
    /\ cache_annotations' = r.cache_annotations
    /\ cache_df' = r.cache_df
    /\ requests' = r.requests
    /\ failed' = r.failed
    /\ session_state' = r.session_state
    /\ matched' = r.matched
    /\ filtered_annotations' = r.filtered_annotations
    /\ total_pages' = r.total_pages
    /\ shown' = r.shown
    /\ download' = r.download
    /\ notice' = r.notice
    /\ word_freq' = r.word_freq
    /\ clicked' = r.clicked
    /\ fault' = r.fault

\* the outcomes of the get_object requests a run may make: none is made once
\* both values are cached; a behaviour holds at most MaxFailures failures
Failures == failed.annotations + failed.df

Outcomes ==
    IF cache_annotations # <<>> /\ cache_df # <<>> THEN {<<TRUE, TRUE>>}
    ELSE IF Failures < MaxFailures THEN BOOLEAN \X BOOLEAN
    ELSE {<<TRUE, TRUE>>}

\* the user changes widgets to w or presses a button; the script runs again
Interact(w, clicked_now) ==
    \E o \in Outcomes :
        LET r == Script(Pre, Store, w, clicked_now, o[1], o[2])
        IN  /\ StateBecomes(w, r)
            /\ UNCHANGED <<store_annotations, store_df>>

\* what the last run rendered before it ended: the two multiselects (lines
\* 67, 75) come before min(years) of line 78, the year inputs, the sliders
\* and the page buttons after it
MultiselectsRendered == cache_annotations # <<>>

SidebarRendered == cache_annotations # <<>> /\ fault # "min"

ExportRendered == SidebarRendered /\ fault # "display"

CloudRendered == cache_df # <<>> /\ fault = "none"

SetSoundTypes(s) ==
    /\ MultiselectsRendered /\ s \subseteq sound_types /\ s # selected_sound_types
    /\ Interact([Widgets EXCEPT !.selected_sound_types = s], "none")

SetLabels(l) ==
    /\ MultiselectsRendered /\ l \subseteq all_labels(cache_annotations[1])
    /\ l # selected_labels
    /\ Interact([Widgets EXCEPT !.selected_labels = l], "none")

InYearBounds(y) ==
    min_year(cache_annotations[1]) <= y /\ y <= max_year(cache_annotations[1])

SetYearStart(y) ==
    /\ SidebarRendered /\ InYearBounds(y) /\ y # year_start
    /\ Interact([Widgets EXCEPT !.year_start = y], "none")

SetYearEnd(y) ==
    /\ SidebarRendered /\ InYearBounds(y) /\ y # year_end
    /\ Interact([Widgets EXCEPT !.year_end = y], "none")

IsVolumeRange(r) == VolumeMin <= r[1] /\ r[1] <= r[2] /\ r[2] <= VolumeMax

SetVolumeHuman(r) ==
    /\ SidebarRendered /\ IsVolumeRange(r) /\ r # volume_human
    /\ Interact([Widgets EXCEPT !.volume_human = r], "none")

SetVolumeNature(r) ==
    /\ SidebarRendered /\ IsVolumeRange(r) /\ r # volume_nature
    /\ Interact([Widgets EXCEPT !.volume_nature = r], "none")

SetVolumeArtificial(r) ==
    /\ SidebarRendered /\ IsVolumeRange(r) /\ r # volume_artificial
    /\ Interact([Widgets EXCEPT !.volume_artificial = r], "none")

PressPrevious == SidebarRendered /\ Interact(Widgets, "previous")

PressNext == SidebarRendered /\ Interact(Widgets, "next")

SetExportFormat(f) ==
    /\ ExportRendered /\ f \in {"CSV", "JSONL"} /\ f # export_format
    /\ Interact([Widgets EXCEPT !.export_format = f], "none")

PressDownload == ExportRendered /\ Interact(Widgets, "download")

SelectCategory(c) ==
    /\ CloudRendered /\ c # selected_category
    /\ \E k \in 1..Len(categories(cache_df[1])) : categories(cache_df[1])[k] = c
    /\ Interact([Widgets EXCEPT !.selected_category = c], "none")

\* the script is run again with nothing changed (the app's Rerun command)
Rerun ==
    /\ Interact(Widgets, "none")

(* --------------------------- specifications --------------------------- *)

\* the state a run from Fresh leaves, with both requests succeeding
AfterFirstRun(annotations, df) ==
    LET store == [annotations |-> annotations, df |-> df]
        w     == DefaultWidgets(annotations, categories(df))
        r     == Script(Fresh, store, w, "none", TRUE, TRUE)
    IN  /\ store_annotations = annotations
        /\ store_df = df
        /\ StateIs(w, r)

\* the widget values the explorations draw from

FilterSoundChoices == {{}, {<<"d">>}, sound_types}

FilterLabelChoices == {{}, {human}, {human, nature}}

FilterVolumeChoices == {<<0, 4>>, <<1, 4>>}

SessionSoundChoices == {{}, {<<"d">>}, sound_types}

SessionVolumeChoices == {<<0, 4>>, <<3, 4>>}

\* a browsing session over a generated corpus: filters, paging, export
Init == \E c \in LongCorpora : AfterFirstRun(c, SmallTable)

Next ==
    \/ \E s \in SessionSoundChoices : SetSoundTypes(s)
    \/ \E y \in {1920, 1999} : SetYearStart(y)
    \/ \E r \in SessionVolumeChoices : SetVolumeHuman(r)
    \/ PressPrevious
    \/ PressNext
    \/ \E f \in {"CSV", "JSONL"} : SetExportFormat(f)
    \/ PressDownload
    \/ Rerun

Spec == Init /\ [][Next]_vars

\* the filter engine over every short corpus of the record pool
InitFilter == \E c \in ShortCorpora : AfterFirstRun(c, SmallTable)

NextFilter ==
    \/ \E s \in FilterSoundChoices : SetSoundTypes(s)
    \/ \E l \in FilterLabelChoices : SetLabels(l)
    \/ \E y \in {1920, 1960} : SetYearStart(y)
    \/ \E y \in {1930, 1999} : SetYearEnd(y)
    \/ \E r \in FilterVolumeChoices : SetVolumeHuman(r)
    \/ \E r \in {<<0, 4>>, <<0, 2>>} : SetVolumeNature(r)
    \/ \E r \in {<<0, 4>>, <<0, 0>>} : SetVolumeArtificial(r)

SpecFilter == InitFilter /\ [][NextFilter]_vars

\* the word-cloud tab over every frequency table
InitCloud ==
    \E df \in Tables : AfterFirstRun([i \in 1..2 |-> Generated(i, FALSE)], df)

NextCloud == \E c \in {"nature", "human"} : SelectCategory(c)

SpecCloud == InitCloud /\ [][NextCloud]_vars

\* the process from its start, get_object requests failing or succeeding
InitCache ==
    \E c \in LongCorpora, df \in {<<>>, SmallTable} :
        LET w == DefaultWidgets(c, categories(df))
        IN  /\ store_annotations = c
            /\ store_df = df
            /\ StateIs(w, Fresh @@
                           [matched |-> <<>>, filtered_annotations |-> <<>>,
                            total_pages |-> 0, shown |-> <<>>,
                            download |-> NoDownload, notice |-> "",
                            word_freq |-> EmptyDict, clicked |-> "none",
                            fault |-> "none"])

NextCache ==
    \/ Rerun
    \/ PressNext
    \/ PressPrevious
    \/ \E c \in {"nature", "human"} : SelectCategory(c)

SpecCache == InitCache /\ [][NextCache]_vars

(* ------------------------------- claims ------------------------------- *)

page_number == session_state.page_number

Min(a, b) == IF a < b THEN a ELSE b

Max(a, b) == IF a > b THEN a ELSE b

\* result is the subsequence of source, in source order, of the records with P
IsSubsequenceWhere(result, source, P(_)) ==
    LET idx == {i \in 1..Len(source) : P(source[i])}
    IN  /\ Len(result) = Cardinality(idx)
        /\ \A i \in idx : result[Cardinality({j \in idx : j <= i})] = source[i]

\* the four predicates of the filter contract, on the widgets w
YearInRange(e, w) ==
    /\ "metadata" \in DOMAIN e
    /\ "year" \in DOMAIN e["metadata"]
    /\ e["metadata"]["year"].t = "int"
    /\ w.year_start <= e["metadata"]["year"].i
    /\ e["metadata"]["year"].i <= w.year_end

SoundTypeSelected(e, w) ==
    /\ "annotations" \in DOMAIN e
    /\ "paragraph_level" \in DOMAIN e["annotations"]
    /\ "sound_type" \in DOMAIN e["annotations"]["paragraph_level"]
    /\ e["annotations"]["paragraph_level"]["sound_type"].t = "str"
    /\ e["annotations"]["paragraph_level"]["sound_type"].s \in w.selected_sound_types

\* a volume of the record; an absent or unparsable one counts as 0
VolumeOf(e, dim) ==
    IF /\ "annotations" \in DOMAIN e
       /\ "paragraph_level" \in DOMAIN e["annotations"]
       /\ "volume" \in DOMAIN e["annotations"]["paragraph_level"]
       /\ dim \in DOMAIN e["annotations"]["paragraph_level"]["volume"]
    THEN safe_int(e["annotations"]["paragraph_level"]["volume"][dim])
    ELSE 0

VolumesInRange(e, w) ==
    /\ w.volume_human[1] <= VolumeOf(e, "human")
    /\ VolumeOf(e, "human") <= w.volume_human[2]
    /\ w.volume_nature[1] <= VolumeOf(e, "nature")
    /\ VolumeOf(e, "nature") <= w.volume_nature[2]
    /\ w.volume_artificial[1] <= VolumeOf(e, "artificial")
    /\ VolumeOf(e, "artificial") <= w.volume_artificial[2]

SomeTokenLabelled(e, w) ==
    \/ w.selected_labels = {}
    \/ /\ "annotations" \in DOMAIN e
       /\ "token_level" \in DOMAIN e["annotations"]
       /\ "labels" \in DOMAIN e["annotations"]["token_level"]
       /\ \E k \in 1..Len(e["annotations"]["token_level"]["labels"]) :
            LET tok == e["annotations"]["token_level"]["labels"][k]
            IN  /\ "labels" \in DOMAIN tok
                /\ \E j \in 1..Len(tok["labels"]) : tok["labels"][j] \in w.selected_labels

\* all four, the sound type being a member of the selection
SatisfiesAllStrict(e) ==
    /\ YearInRange(e, Widgets)
    /\ SoundTypeSelected(e, Widgets)
    /\ VolumesInRange(e, Widgets)
    /\ SomeTokenLabelled(e, Widgets)

\* all four, an empty sound-type selection restricting nothing
SatisfiesOn(e, w) ==
    /\ YearInRange(e, w)
    /\ (w.selected_sound_types = {} \/ SoundTypeSelected(e, w))
    /\ VolumesInRange(e, w)
    /\ SomeTokenLabelled(e, w)

SatisfiesAll(e) == SatisfiesOn(e, Widgets)

\* the number of records of the corpus that satisfy the current filters
NumSatisfying ==
    Cardinality({i \in 1..Len(store_annotations) : SatisfiesAll(store_annotations[i])})

(* C1 (as stated): the filter result is the ordered subsequence of the      *)
(* records that satisfy all four predicates, the sound type being a member  *)
(* of the selected set.  Fails when no sound type is selected.              *)
C1_FilterExact_Original ==
    IsSubsequenceWhere(matched, store_annotations, SatisfiesAllStrict)

(* C1 (amended): the filter result is the ordered subsequence, in original  *)
(* order, of the records with a present year in [year_start, year_end],     *)
(* whose sound type is in the selection when the selection is non-empty,    *)
(* whose three volumes (unparsable or absent counted as 0) lie in their     *)
(* ranges, and with a token labelled from the selection when it is          *)
(* non-empty; a record without metadata.year is never in the result.        *)
C1_FilterExact ==
    /\ IsSubsequenceWhere(matched, store_annotations, SatisfiesAll)
    /\ \A k \in 1..Len(matched) :
          Get(Get(matched[k], "metadata", EmptyDict), "year", None) # None

\* no sound type selected, a label selected, some records kept and some dropped
C1_Witness ==
    /\ selected_sound_types = {}
    /\ selected_labels # {}
    /\ matched # <<>>
    /\ Len(matched) < Len(store_annotations)
    /\ \E k \in 1..Len(store_annotations) :
          "metadata" \notin DOMAIN store_annotations[k]
          \/ "year" \notin DOMAIN store_annotations[k]["metadata"]

\* the widget values a single filter may be widened to
AllYears == {1920, 1930, 1950, 1960, 1999}

AllVolumeRanges ==
    {<<lo, hi>> : lo \in VolumeMin..VolumeMax, hi \in VolumeMin..VolumeMax}

\* w2 is w1 with one filter widened; a selection counts as widened by any superset
WidenedBySuperset(w1) ==
    {[w1 EXCEPT !.year_start = ys, !.year_end = ye] :
        ys \in {y \in AllYears : y <= w1.year_start},
        ye \in {y \in AllYears : y >= w1.year_end}}
    \cup {[w1 EXCEPT !.volume_human = r] :
            r \in {x \in AllVolumeRanges :
                     x[1] <= w1.volume_human[1] /\ x[2] >= w1.volume_human[2]}}
    \cup {[w1 EXCEPT !.volume_nature = r] :
            r \in {x \in AllVolumeRanges :
                     x[1] <= w1.volume_nature[1] /\ x[2] >= w1.volume_nature[2]}}
    \cup {[w1 EXCEPT !.volume_artificial = r] :
            r \in {x \in AllVolumeRanges :
                     x[1] <= w1.volume_artificial[1] /\ x[2] >= w1.volume_artificial[2]}}
    \cup {[w1 EXCEPT !.selected_sound_types = t] :
            t \in {x \in SUBSET sound_types : w1.selected_sound_types \subseteq x}}
    \cup {[w1 EXCEPT !.selected_labels = l] :
            l \in {x \in SUBSET {human, nature} : w1.selected_labels \subseteq x}}

\* the same, a selection being widened only from a non-empty one
Widened(w1) ==
    {w2 \in WidenedBySuperset(w1) :
        /\ w2.selected_sound_types # w1.selected_sound_types
              => w1.selected_sound_types # {}
        /\ w2.selected_labels # w1.selected_labels => w1.selected_labels # {}}

\* every record of the result of the current filters is in the result of w2
KeptUnder(w2) ==
    \A k \in 1..Len(matched) :
        \E j \in 1..Len(Matching(store_annotations, w2)) :
            Matching(store_annotations, w2)[j] = matched[k]

(* C2 (as stated): widening one filter (a wider year or volume range, a     *)
(* superset of the selected sound types or labels) keeps every record of    *)
(* the narrower result.  Fails when the narrower selection is empty.        *)
C2_Monotonic_Original == \A w2 \in WidenedBySuperset(Widgets) : KeptUnder(w2)

(* C2 (amended): every record that matches the current filters also matches *)
(* after one filter is widened: a wider year range, a wider volume range,   *)
(* or a superset of a non-empty sound-type or label selection.              *)
C2_Monotonic == \A w2 \in Widened(Widgets) : KeptUnder(w2)

\* a widening that adds a record to a non-empty result
C2_Witness ==
    /\ matched # <<>>
    /\ selected_labels # {}
    /\ \E w2 \in Widened(Widgets) :
          Len(Matching(store_annotations, w2)) > Len(matched)

(* C3: in every state the stored page index lies in 1..total_pages, with    *)
(* total_pages as computed in the same run.                                 *)
C3_PageInBounds ==
    "page_number" \in DOMAIN session_state
        => 1 <= page_number /\ page_number <= total_pages

(* C4 (as stated): the page count is max(1, n), n the number of records     *)
(* that satisfy the filters.                                                *)
C4_TotalPages_Original == total_pages = Max(1, NumSatisfying)

(* C4 (amended): the page count is min(N_DISPLAY, n), n the number of       *)
(* records that satisfy the filters: 0 when none does, n up to N_DISPLAY    *)
(* records and N_DISPLAY beyond.                                            *)
C4_TotalPages == total_pages = Min(N_DISPLAY, NumSatisfying)

\* more records match than the cap keeps
C4_Witness == NumSatisfying > N_DISPLAY /\ total_pages = N_DISPLAY

(* C5: Previous at page 1 and Next at the last page leave the page alone;   *)
(* Previous above page 1 decrements it by one, Next below the last page     *)
(* increments it by one.                                                    *)
C5_Navigation ==
    [][/\ (clicked' = "previous" /\ page_number = 1) => page_number' = 1
       /\ (clicked' = "previous" /\ page_number > 1) => page_number' = page_number - 1
       /\ (clicked' = "next" /\ page_number = total_pages')
             => page_number' = page_number
       /\ (clicked' = "next" /\ page_number < total_pages')
             => page_number' = page_number + 1]_vars

\* Next was pressed and the session is on the last of several pages
C5_Witness == clicked = "next" /\ total_pages >= 2 /\ page_number = total_pages

(* C6: a press of the download button yields min(20, n) CSV data rows, or   *)
(* min(20, n) JSON lines, of the first min(20, n) filtered records in       *)
(* order, whatever the page.                                                *)
C6_ExportCount ==
    clicked = "download" =>
        LET n == Min(N_DISPLAY, NumSatisfying)
        IN  IF export_format = "CSV"
            THEN /\ download.kind = "csv"
                 /\ Len(download.rows) = n
                 /\ \A k \in 1..n : download.rows[k][1] = matched[k]["story_id"]
            ELSE /\ download.kind = "jsonl"
                 /\ download.lines = SubSeq(matched, 1, n)

(* C7: the export raises no fault, whatever fields the filter tolerated as  *)
(* absent in the records it let through.                                    *)
C7_ExportNoFault == clicked = "download" => fault # "export"

(* C8: the word-cloud input has the distinct lemmas of the selected         *)
(* category's rows as keys, each mapped to the freq of its last such row;   *)
(* with no such row nothing is rendered and the notice is shown.            *)
C8_WordFreq ==
    LET idx == {i \in 1..Len(store_df) : store_df[i].category = selected_category}
    IN  IF idx = {}
        THEN notice = "No words yet :(" /\ DOMAIN word_freq = {}
        ELSE /\ notice = "wordcloud"
             /\ DOMAIN word_freq = {store_df[i].lemma : i \in idx}
             /\ \A i \in idx :
                   (\A j \in idx : store_df[j].lemma = store_df[i].lemma => j <= i)
                       => word_freq[store_df[i].lemma] = store_df[i].freq

\* a lemma occurs twice in the selected category, with two frequencies
C8_Witness ==
    \E i, j \in 1..Len(store_df) :
        /\ i < j
        /\ store_df[i].category = selected_category
        /\ store_df[j].category = selected_category
        /\ store_df[i].lemma = store_df[j].lemma
        /\ store_df[i].freq # store_df[j].freq
        /\ notice = "wordcloud"

(* C9: at most one get_object request per object succeeds, and once an      *)
(* object is cached no later run requests it again.                         *)
C9_FetchOnce ==
    /\ [](/\ requests.annotations - failed.annotations <= 1
          /\ requests.df - failed.df <= 1)
    /\ [][/\ cache_annotations # <<>>
             => /\ requests'.annotations = requests.annotations
                /\ cache_annotations' = cache_annotations
          /\ cache_df # <<>>
             => requests'.df = requests.df /\ cache_df' = cache_df]_vars

\* both objects were fetched, one after a failed request, and later runs followed
C9_Witness ==
    /\ cache_annotations # <<>> /\ cache_df # <<>>
    /\ failed.annotations >= 1
    /\ clicked = "next" /\ page_number >= 3

(* C10: while a record matches the filters, exactly the record at position  *)
(* page_number of the filtered sequence is shown.                           *)
C10_OneRecordShown ==
    ("page_number" \in DOMAIN session_state /\ NumSatisfying >= 1)
        => /\ page_number <= Len(matched)
           /\ shown = <<matched[page_number]>>

=============================================================================
